---- MODULE Spec2Model ----
(***************************************************************************)
(* Model of src/main.py, the Streamlit voicemail transcriber.              *)
(*                                                                         *)
(* One action is one script run triggered by one user interaction: the    *)
(* widget that changed and everything the script does in that run.         *)
(* st.session_state (transcription_history, current_transcription), the    *)
(* st.cache_data store behind transcribe_audio and the temporary files on  *)
(* disk survive from run to run; everything else is rebuilt by each run.   *)
(***************************************************************************)
EXTENDS FiniteSets, Integers, Sequences, TLC

VARIABLES
    uploaded_file,          \* value of st.file_uploader (line 160); NoFile models None
    current_transcription,  \* st.session_state.current_transcription (line 154)
    transcription_history,  \* st.session_state.transcription_history (line 153)
    cache,                  \* st.cache_data store of transcribe_audio (line 24)
    files,                  \* temporary files that exist on disk between runs
    fault,                  \* exception that escaped the last script run, or NoFault
    lastRun,                \* what the last run's Transcribe handler did, or NoRun
    download,               \* file handed to the browser by the last run, or NoDownload
    transcribedFile,        \* history variable: name of the upload current_transcription came from
    saved                   \* history variable: entries in the order Save stored them since the last clear

vars == <<uploaded_file, current_transcription, transcription_history, cache,
          files, fault, lastRun, download, transcribedFile, saved>>

----------------------------------------------------------------------------
(* Bounds of the model *)

MaxSaved == 1          \* Spec, SpecCache: entries kept in transcription_history
MaxLeaked == 1         \* Spec: temporary files left behind on disk
MaxCached == 1         \* Spec: values kept by st.cache_data
MaxCache == 2          \* SpecCache: values kept by st.cache_data
MaxHistory == 3        \* SpecStore: entries kept in transcription_history
StoreCache == 1        \* SpecStore: values kept by st.cache_data
FileNames == {"vm1.wav", "vm2.mp3"}
MimeTypes == {"audio/mp3", "audio/wav"}
TempPaths == {"tmpA", "tmpB", "tmpC", "tmpD"}
Callers == {"A", "B", "C"}
Addresses == {""}
Phones == {""}
Notes == {""}
Timestamps == {"2024-01-01 10:00:00"}

(* The browser derives the declared type from the file name's extension. *)
MimeOf(name) == IF name = "vm2.mp3" THEN "audio/mp3" ELSE "audio/wav"

(* Audio samples a user can upload, by which pydub decoder accepts their bytes. *)
AudioSamples == {"mp3", "adpcm_wav", "pcm_wav", "text"}

----------------------------------------------------------------------------
(* Python values *)

None == "<None>"
NoFile == [name |-> "", type |-> "", audio |-> ""]
NoFault == "none"
NoDownload == <<>>

Truthy(s) == s # None /\ s # ""

(* The strings transcribe_audio returns. *)
ErrLoad == "Error loading audio file"
ErrConversion == "Error during audio conversion"
ErrNoWav == "Failed to create WAV file"
ErrEmptyWav == "Generated WAV file is empty"
ErrUnintelligible == "Speech recognition could not understand the audio."
ErrRequest == "Could not request results from the recognition service"
ErrProcessing == "Error processing audio"

FailureMessages == {ErrLoad, ErrConversion, ErrNoWav, ErrEmptyWav,
                    ErrUnintelligible, ErrRequest, ErrProcessing}

(* recognize_google's text for the audio of a sample. *)
Transcript(a) ==
    CASE a = "mp3" -> "transcript of the mp3 sample"
      [] a = "adpcm_wav" -> "transcript of the adpcm sample"
      [] a = "pcm_wav" -> "transcript of the pcm sample"
      [] OTHER -> "transcript of the text sample"

Transcripts == {Transcript(a) : a \in AudioSamples}

----------------------------------------------------------------------------
(* pydub decoders, applied to the bytes stored in a temporary file.  A     *)
(* file holds either the uploaded bytes of a sample (std = FALSE) or the   *)
(* 16-bit PCM WAV that line 130 exported from it (std = TRUE).             *)

Uploaded(a) == [audio |-> a, std |-> FALSE]
Standardized(a) == [audio |-> a, std |-> TRUE]

FromMp3(d) == ~d.std /\ d.audio = "mp3"
FromAdpcmWav(d) == ~d.std /\ d.audio = "adpcm_wav"
FromWav(d) == d.std \/ d.audio \in {"adpcm_wav", "pcm_wav"}

(* Some decoder the application uses accepts the uploaded bytes. *)
Decodable(a) ==
    FromMp3(Uploaded(a)) \/ FromAdpcmWav(Uploaded(a)) \/ FromWav(Uploaded(a))

(* Line 146: the type save_uploaded_file falls back to. *)
DeclaredType(file) == IF file.type = "audio/mp3" THEN "mp3" ELSE "wav"

(* tempfile.NamedTemporaryFile(delete=False): a random name no existing    *)
(* file has.  The program only compares names (as cache keys, line 24) and *)
(* tests them for existence, so names that are neither on disk nor in the  *)
(* cache are interchangeable: one of them stands for all of them.  A name  *)
(* the cache remembers can come back once its file is gone.                *)
CachedPaths(ch) == {k[1] : k \in DOMAIN ch}

FreshPaths(fs, ch) ==
    LET unused == TempPaths \ (fs \cup CachedPaths(ch))
    IN (CachedPaths(ch) \ fs)
       \cup (IF unused = {} THEN {} ELSE {CHOOSE p \in unused : TRUE})

----------------------------------------------------------------------------
(* save_uploaded_file: the set of ways one call can end.  fs is the set of *)
(* temporary files before the call; each outcome carries the files after.  *)

SaveRaised(fs) ==
    [raised |-> TRUE, path |-> "", type |-> "", data |-> Uploaded(""), fs |-> fs]

SaveReturned(path, type, data, fs) ==
    [raised |-> FALSE, path |-> path, type |-> type, data |-> data, fs |-> fs]

SaveUploadedFile(file, fs, ch) ==
    UNION { LET fs1 == fs \cup {temp_path}
                orig == Uploaded(file.audio)
            IN
              \* line 114: temp_file.write raises, the created file stays
              { SaveRaised(fs1) }
              \cup
              ( IF FromMp3(orig)
                THEN \* line 121
                     { SaveReturned(temp_path, "mp3", orig, fs1) }
                ELSE IF ~FromAdpcmWav(orig)
                THEN \* line 125 raises, line 146
                     { SaveReturned(temp_path, DeclaredType(file), orig, fs1) }
                ELSE UNION { LET fs2 == fs1 \cup {standard_wav}
                             IN { \* line 130 exports, line 141 removes, line 142
                                  SaveReturned(standard_wav, "wav",
                                               Standardized(file.audio),
                                               fs2 \ {temp_path}),
                                  \* line 130 or line 141 raises, line 146
                                  SaveReturned(temp_path, DeclaredType(file),
                                               orig, fs2) }
                             : standard_wav \in FreshPaths(fs1, ch) } )
          : temp_path \in FreshPaths(fs, ch) }

----------------------------------------------------------------------------
(* transcribe_audio behind st.cache_data.                                  *)

(* st.cache_data hashes the arguments of the call. *)
CacheKey(audio_path, file_type) == <<audio_path, file_type>>

Ran(result, called, fs) == [result |-> result, called |-> called, fs |-> fs]

(* Lines 100-106: the finally clause removes wav_path if it still exists;  *)
(* a failing os.remove is reported with st.error and the file stays.       *)
Finally(result, called, fs, wav_path) ==
    IF wav_path \in fs
    THEN { Ran(result, called, fs \ {wav_path}), Ran(result, called, fs) }
    ELSE { Ran(result, called, fs) }

(* Lines 31-48: load the file as the detected type says. *)
Loads(file_type, d) ==
    IF file_type = "mp3" THEN FromMp3(d) ELSE FromAdpcmWav(d) \/ FromWav(d)

(* The body of transcribe_audio, lines 26-106: the set of ways it can end. *)
TranscribeBody(file_type, d, fs, ch) ==
    IF ~Loads(file_type, d)
    THEN { Ran(ErrLoad, FALSE, fs) }                       \* line 48
    ELSE UNION {
           LET fs1 == fs \cup {wav_path} IN               \* line 51
             \* lines 73-77: the export raises, line 76 removes the file
             Finally(ErrConversion, FALSE, fs1 \ {wav_path}, wav_path)
             \* line 81: the file is gone after the export
             \cup Finally(ErrNoWav, FALSE, fs1 \ {wav_path}, wav_path)
             \* lines 83-85: the output is empty, line 84 removes the file
             \cup Finally(ErrEmptyWav, FALSE, fs1 \ {wav_path}, wav_path)
             \* os.remove raises at line 76 or 84, or reading the WAV back
             \* raises at lines 88-89: caught at line 97
             \cup Finally(ErrProcessing, FALSE, fs1, wav_path)
             \* line 90: recognize_google returns, or raises
             \cup Finally(Transcript(d.audio), TRUE, fs1, wav_path)
             \cup Finally(ErrUnintelligible, TRUE, fs1, wav_path)
             \cup Finally(ErrRequest, TRUE, fs1, wav_path)
             \cup Finally(ErrProcessing, TRUE, fs1, wav_path)
           : wav_path \in FreshPaths(fs, ch) }

Called(result, src, hit, called, fs, ch) ==
    [result |-> result, src |-> src, hit |-> hit, called |-> called,
     fs |-> fs, cache |-> ch]

(* A call of the cached function: a stored value for the key is returned   *)
(* without running the body; otherwise the body runs and its return value  *)
(* is stored.  Each stored value remembers the audio it was computed from. *)
TranscribeAudio(audio_path, file_type, d, fs, ch) ==
    LET key == CacheKey(audio_path, file_type) IN
    IF key \in DOMAIN ch
    THEN { Called(ch[key].result, ch[key].src, TRUE, FALSE, fs, ch) }
    ELSE { Called(r.result, d.audio, FALSE, r.called, r.fs,
                  (key :> [result |-> r.result, src |-> d.audio]) @@ ch)
           : r \in TranscribeBody(file_type, d, fs, ch) }

----------------------------------------------------------------------------
(* Results of a script run *)

NoRun == [audio |-> "", mime |-> "", raised |-> FALSE, hit |-> FALSE,
          called |-> FALSE, result |-> None, src |-> ""]

(* The form of lines 182-209 is on the page unless the last run stopped    *)
(* before line 182; the sidebar of lines 215-270 is on the page only if    *)
(* the last run reached it.                                                *)
FormRendered == fault \in {NoFault, "AttributeError"}
SidebarRendered == fault = NoFault

Init ==
    /\ uploaded_file = NoFile
    /\ current_transcription = None
    /\ transcription_history = <<>>
    /\ cache = [k \in {} |-> None]
    /\ files = {}
    /\ fault = NoFault
    /\ lastRun = NoRun
    /\ download = NoDownload
    /\ transcribedFile = ""
    /\ saved = <<>>

----------------------------------------------------------------------------
(* Lines 160-163: the user picks a file, or replaces the one picked. *)
Upload ==
    \E name \in FileNames, type \in MimeTypes, audio \in AudioSamples :
        /\ type = MimeOf(name)
        /\ uploaded_file' = [name |-> name, type |-> type, audio |-> audio]
        /\ fault' = NoFault
        /\ lastRun' = NoRun
        /\ download' = NoDownload
        /\ UNCHANGED <<current_transcription, transcription_history, cache,
                       files, transcribedFile, saved>>

(* Line 160: the user removes the file from the uploader. *)
RemoveUpload ==
    /\ uploaded_file # NoFile
    /\ uploaded_file' = NoFile
    /\ fault' = NoFault
    /\ lastRun' = NoRun
    /\ download' = NoDownload
    /\ UNCHANGED <<current_transcription, transcription_history, cache,
                   files, transcribedFile, saved>>

(* Lines 165-176: the Transcribe Audio button. *)
TranscribeButton ==
    /\ uploaded_file # NoFile
    /\ Cardinality(TempPaths \ files) >= 3
    /\ download' = NoDownload
    /\ UNCHANGED <<uploaded_file, transcription_history, saved>>
    /\ \E s \in SaveUploadedFile(uploaded_file, files, cache) :
         IF s.raised
         THEN \* line 172 catches, line 175 reads audio_path, which is unbound
              /\ fault' = "NameError"
              /\ files' = s.fs
              /\ lastRun' = [NoRun EXCEPT !.audio = uploaded_file.audio,
                                          !.mime = uploaded_file.type,
                                          !.raised = TRUE]
              /\ UNCHANGED <<current_transcription, cache, transcribedFile>>
         ELSE \E t \in TranscribeAudio(s.path, s.type, s.data, s.fs, cache) :
              \E removed \in BOOLEAN :
                /\ current_transcription' = t.result           \* line 169
                /\ transcribedFile' = uploaded_file.name
                /\ cache' = t.cache
                \* lines 175-176: os.remove(audio_path) works or raises
                /\ files' = IF removed THEN t.fs \ {s.path} ELSE t.fs
                /\ fault' = IF removed THEN NoFault ELSE "OSError"
                /\ lastRun' = [audio |-> uploaded_file.audio,
                               mime |-> uploaded_file.type,
                               raised |-> FALSE, hit |-> t.hit,
                               called |-> t.called, result |-> t.result,
                               src |-> t.src]

(* Lines 196-206: the dictionary Save Transcription stores. *)
Entry(file, caller, address, phone, note, transcription, timestamp) ==
    [filename |-> file.name, address |-> address, phone |-> phone,
     note |-> note, caller |-> caller, transcription |-> transcription,
     timestamp |-> timestamp]

(* Line 196: list.append. *)
HistoryAppend(history, entry) == Append(history, entry)

(* Lines 182-209: the metadata form and its Save Transcription button. *)
SaveTranscription ==
    /\ FormRendered
    /\ Truthy(current_transcription)                              \* line 182
    /\ lastRun' = NoRun
    /\ download' = NoDownload
    /\ UNCHANGED <<uploaded_file, cache, files>>
    /\ IF uploaded_file = NoFile
       THEN \* line 198: uploaded_file is None, uploaded_file.name raises
            /\ fault' = "AttributeError"
            /\ UNCHANGED <<current_transcription, transcription_history,
                           transcribedFile, saved>>
       ELSE /\ \E caller \in Callers, address \in Addresses, phone \in Phones,
                  note \in Notes, timestamp \in Timestamps :
                 LET entry == Entry(uploaded_file, caller, address, phone, note,
                                    current_transcription, timestamp)
                 IN /\ transcription_history' =
                          HistoryAppend(transcription_history, entry)
                    /\ saved' = Append(saved, entry)
            /\ current_transcription' = None                      \* line 207
            /\ transcribedFile' = ""
            /\ fault' = NoFault

(* Line 244: reversed(transcription_history). *)
RECURSIVE Reversed(_)
Reversed(s) == IF s = <<>> THEN <<>> ELSE Append(Reversed(Tail(s)), Head(s))

(* The sidebar loop without reversed(): oldest entry first. *)
SidebarOldestFirst(history) == history

(* Lines 243-254: the entries in the order the sidebar shows them. *)
SidebarEntries(history) == Reversed(history)

(* Lines 219 and 256: timestamp.replace(":", "-"). *)
Dashed(timestamp) ==
    CASE timestamp = "2024-01-01 10:00:00" -> "2024-01-01 10-00-00"
      [] OTHER -> timestamp

(* Lines 256-258: the name of the downloaded file. *)
ExportFileName(entry) == <<Dashed(entry.timestamp), "_", entry.caller, ".txt">>

(* Lines 218-240. *)
export_transcription(entry) ==
    << "Voicemail Transcription Export",
       "============================",
       "",
       <<"Caller: ", entry.caller>>,
       <<"Address: ", entry.address>>,
       <<"Phone: ", entry.phone>>,
       <<"Timestamp: ", entry.timestamp>>,
       <<"Filename: ", entry.filename>>,
       "",
       "Notes:",
       entry.note,
       "",
       "Transcription:",
       entry.transcription >>

(* Lines 259-266: the Download TXT button of one sidebar entry. *)
DownloadTxt ==
    /\ SidebarRendered
    /\ \E i \in 1..Len(transcription_history) :
         LET entry == SidebarEntries(transcription_history)[i]
         IN download' = [file_name |-> ExportFileName(entry),
                         data |-> export_transcription(entry)]
    /\ fault' = NoFault
    /\ lastRun' = NoRun
    /\ UNCHANGED <<uploaded_file, current_transcription, transcription_history,
                   cache, files, transcribedFile, saved>>

(* A clear that drops the oldest entry only. *)
HistoryDropOldest(history) == Tail(history)

(* Line 269: list.clear. *)
HistoryClear(history) == <<>>

(* Lines 268-270: the Clear History button. *)
ClearHistory ==
    /\ SidebarRendered
    /\ transcription_history # <<>>                               \* line 243
    /\ transcription_history' = HistoryClear(transcription_history)
    /\ saved' = <<>>
    /\ fault' = NoFault
    /\ lastRun' = NoRun
    /\ download' = NoDownload
    /\ UNCHANGED <<uploaded_file, current_transcription, cache, files,
                   transcribedFile>>

Next ==
    \/ Upload
    \/ RemoveUpload
    \/ TranscribeButton
    \/ SaveTranscription
    \/ DownloadTxt
    \/ ClearHistory

----------------------------------------------------------------------------
(* Next is the program: nothing in it stops the history, the cache or the  *)
(* leftover files from growing.  Each specification explores the part of   *)
(* its behaviours that stays inside a finite scope.                        *)

Within(A, scope) == A /\ scope'

(* The whole pipeline: every sample and every failure, one cached value,   *)
(* a history of one entry.                                                 *)
PipelineScope ==
    /\ Len(transcription_history) <= MaxSaved
    /\ \A i \in 1..Len(transcription_history) :
          transcription_history[i].caller = "A"
    /\ Cardinality(DOMAIN cache) <= MaxCached
    /\ Cardinality(files) <= MaxLeaked

PipelineNext ==
    \/ Within(Upload, PipelineScope)
    \/ Within(RemoveUpload, PipelineScope)
    \/ Within(TranscribeButton, PipelineScope)
    \/ Within(SaveTranscription, PipelineScope)
    \/ Within(DownloadTxt, PipelineScope)
    \/ Within(ClearHistory, PipelineScope)

Spec == Init /\ [][PipelineNext]_vars

(* Repeated transcriptions of MP3 and PCM WAV samples: two cached values,  *)
(* no file left behind.                                                    *)
CacheScope ==
    /\ Len(transcription_history) <= MaxSaved
    /\ \A i \in 1..Len(transcription_history) :
          transcription_history[i].caller = "A"
    /\ Cardinality(DOMAIN cache) <= MaxCache
    /\ uploaded_file.audio \in {"", "mp3", "pcm_wav"}
    /\ files = {}

CacheNext ==
    \/ Within(Upload, CacheScope)
    \/ Within(RemoveUpload, CacheScope)
    \/ Within(TranscribeButton, CacheScope)
    \/ Within(SaveTranscription, CacheScope)
    \/ Within(DownloadTxt, CacheScope)
    \/ Within(ClearHistory, CacheScope)

SpecCache == Init /\ [][CacheNext]_vars

(* The history: MP3 voicemails that are transcribed or not understood,     *)
(* every caller, no file left behind.                                      *)
StoreResults == {None, Transcript("mp3"), ErrUnintelligible}

StoreScope ==
    /\ Len(transcription_history) <= MaxHistory
    /\ uploaded_file \in {NoFile, [name |-> "vm2.mp3", type |-> "audio/mp3",
                                   audio |-> "mp3"]}
    /\ current_transcription \in StoreResults
    /\ Cardinality(DOMAIN cache) <= StoreCache
    /\ files = {}

StoreNext ==
    \/ Within(Upload, StoreScope)
    \/ Within(RemoveUpload, StoreScope)
    \/ Within(TranscribeButton, StoreScope)
    \/ Within(SaveTranscription, StoreScope)
    \/ Within(DownloadTxt, StoreScope)
    \/ Within(ClearHistory, StoreScope)

SpecStore == Init /\ [][StoreNext]_vars

----------------------------------------------------------------------------
(* Properties *)

(* A step of the Transcribe Audio handler in which transcribe_audio was called. *)
Transcribed(run) == run # NoRun /\ ~run.raised

(* C1: pressing Transcribe Audio twice on the same upload returns the same *)
(* result both times, the second time from the cache, and recognize_google *)
(* is invoked at most once over the two calls.                             *)
TranscribeIdempotent ==
    [][ ( /\ Transcribed(lastRun) /\ Transcribed(lastRun')
          /\ lastRun'.audio = lastRun.audio
          /\ lastRun'.mime = lastRun.mime )
        => ( /\ lastRun'.result = lastRun.result
             /\ lastRun'.hit
             /\ ~(lastRun.called /\ lastRun'.called) ) ]_vars

(* C2: when a Transcribe Audio run ends, on any branch, no temporary file  *)
(* it created is left on disk (it creates files under names no existing   *)
(* file has, so a file it leaves is a file that was not there before).     *)
TempFilesReleased ==
    [][ lastRun' # NoRun => files' \subseteq files ]_vars

(* C3: no exception escapes the Transcribe Audio handler, whatever fails.  *)
NoUncaughtFault ==
    lastRun # NoRun => fault = NoFault

(* C4: a failure message of transcribe_audio is never stored in            *)
(* current_transcription, and every saved transcription is text the        *)
(* recognizer produced.                                                    *)
FailuresNeverStored ==
    /\ current_transcription \notin FailureMessages
    /\ \A i \in 1..Len(transcription_history) :
          transcription_history[i].transcription \in Transcripts

(* C5: whenever transcribe_audio runs on an upload that some supported     *)
(* decoder (MP3, ADPCM WAV, plain WAV) accepts, the audio is loaded: the   *)
(* load error is returned only for bytes no decoder accepts.               *)
DecodeFallback ==
    (Transcribed(lastRun) /\ ~lastRun.hit /\ Decodable(lastRun.audio))
        => lastRun.result # ErrLoad

(* C6: a result returned from the cache was computed from the same audio   *)
(* content as the current upload.                                          *)
CacheKeyedByContent ==
    (Transcribed(lastRun) /\ lastRun.hit) => lastRun.src = lastRun.audio

AppendsOne(old, new) ==
    Len(new) = Len(old) + 1 /\ SubSeq(new, 1, Len(old)) = old

(* C8: every step leaves transcription_history unchanged, appends one      *)
(* entry at its end, or empties it; uploading, removing the upload,        *)
(* transcribing and downloading leave it unchanged, Save Transcription     *)
(* leaves it unchanged or appends one entry, and after Clear History it is *)
(* empty.                                                                  *)
HistoryAppendOrClearOnly ==
    [][ /\ \/ transcription_history' = transcription_history
           \/ AppendsOne(transcription_history, transcription_history')
           \/ transcription_history' = <<>>
        /\ (Upload \/ RemoveUpload \/ TranscribeButton \/ DownloadTxt)
              => transcription_history' = transcription_history
        /\ SaveTranscription
              => \/ transcription_history' = transcription_history
                 \/ AppendsOne(transcription_history, transcription_history')
        /\ ClearHistory => transcription_history' = <<>> ]_vars

(* Two different entries are in the history, one appended after the other. *)
TwoEntriesKept ==
    /\ Len(transcription_history) = 2
    /\ transcription_history[1] # transcription_history[2]
    /\ transcription_history = saved

(* C9: whenever Save Transcription can be pressed, pressing it completes   *)
(* without a fault and appends exactly one entry.                          *)
SaveAlwaysAppends ==
    [][ SaveTranscription
        => ( /\ fault' = NoFault
             /\ AppendsOne(transcription_history, transcription_history') ) ]_vars

(* C10: an entry is saved under the name of the upload its transcription   *)
(* was computed from.                                                      *)
EntryMatchesSource ==
    [][ (SaveTranscription
           /\ AppendsOne(transcription_history, transcription_history'))
        => transcription_history'[Len(transcription_history')].filename
             = transcribedFile ]_vars

====
